---- MODULE Spec2Model ----
(***************************************************************************)
(* Model of the custom memory allocator (allocator.c).                     *)
(*                                                                         *)
(* Memory is modelled at header granularity: `mem` maps the address of     *)
(* every block header the allocator has written to the header's fields.    *)
(* The intrusive next/prev links, the two list heads and the statistics    *)
(* are kept exactly as the code keeps them, so that the lists may become   *)
(* inconsistent, overlapping or cyclic when the code makes them so.        *)
(* size_t arithmetic is modular (SizeMod stands for 2^64).                 *)
(*                                                                         *)
(* In Spec and SpecMT all requested sizes are multiples of the header      *)
(* size, so that two headers either coincide or are disjoint.  SpecSizes   *)
(* has requests of any size (small, odd, close to SIZE_MAX) and only       *)
(* allocates, so that no header is written across another one.             *)
(***************************************************************************)
EXTENDS Integers, Naturals, Sequences, FiniteSets, TLC

VARIABLES
    mem,          \* header address -> memory_block_t fields written there
    free_list,    \* allocator_state.free_list
    used_list,    \* allocator_state.used_list
    heap_start,   \* allocator_state.heap_start
    heap_size,    \* allocator_state.heap_size
    page_size,    \* allocator_state.page_size
    initialized,  \* allocator_state.initialized
    config,       \* allocator_state.config
    stats,        \* allocator_state.stats
    extents,      \* the OS side: the mappings mmap has handed out
    live,         \* the client side: pointers it holds -> [n, base, aligned]
    intact,       \* live pointers whose n payload bytes still hold the client's data
    status,       \* "ok", "fault" (access outside every mapping), "hang" (a loop
                  \* that never ends), "corrupt" (a header overwritten with data)
                  \* or "end" (the client has made its last call)
    calls,        \* number of mem_realloc calls and of aligned allocations made so far
    mutex,        \* allocator_state.mutex: "none" (never initialised), "free",
                  \* "destroyed", or the thread that holds it
    pages,        \* the OS side: page address -> protection set by mprotect
    pc,           \* thread -> where it is in the public call it is making
    last,         \* record of the last public call (arguments, result, what it did)
    hist          \* the calls since allocator_init, while they are a run of
                  \* allocations from the first mapping followed by frees of them

vars == <<mem, free_list, used_list, heap_start, heap_size, page_size,
          initialized, config, stats, extents, live, intact, status, calls,
          mutex, pages, pc, last, hist>>

-----------------------------------------------------------------------------
(* Bounds of the model *)

MaxAllocs == 3
MaxReallocs == 2
MaxExtents == 2
MaxInits == 1
MaxCallsMT == 3

(* Program constants *)

NULL == 0
HDR == 40
HDR_FIELDS == 32
MIN_PAYLOAD == 16
PTR_SIZE == 8
MEM_READ == 1
MEM_WRITE == 2
MEM_EXEC == 4
PageSize == 256
InitialHeapSize == 1 * PageSize
ExtentStride == 5 * PageSize
SizeMod == 2^16
SIZE_MAX == SizeMod - 1

SIZES == {40, 80, 120}
ALIGNED_ARGS == {<<64, 8>>, <<8, 64>>}
STRATEGIES == {0, 1, 2, 3}

Add(x, y) == (x + y) % SizeMod
Sub(x, y) == ((x - y) + SizeMod) % SizeMod

ZeroHdr == [size |-> 0, is_free |-> FALSE, protection |-> 0, next |-> NULL, prev |-> NULL]
ZeroStats == [total_memory |-> 0, used_memory |-> 0, free_memory |-> 0, overhead |-> 0,
              peak_usage |-> 0, total_allocations |-> 0, active_allocations |-> 0,
              fragmentation_ratio |-> [largest |-> 0, free |-> 0]]
NoLast == [op |-> "none"]
Idle == [at |-> "idle", op |-> "none", ptr |-> NULL, size |-> 0, n |-> 0,
         new_ptr |-> NULL, made |-> 0]
NoHist == [pure |-> FALSE, allocs |-> <<>>, frees |-> <<>>]
COUNTED == {"alloc_aligned", "realloc", "init"}
THREADS == {"t1", "t2"}

-----------------------------------------------------------------------------
(* The state as one record, so that the helper functions of allocator.c    *)
(* are functions from state to state.                                      *)

(* The fields after status belong to the call in progress: the thread     *)
(* making it, its result and what it did.                                  *)
State == [mem |-> mem, free_list |-> free_list, used_list |-> used_list,
          heap_start |-> heap_start, heap_size |-> heap_size, page_size |-> page_size,
          initialized |-> initialized, config |-> config, stats |-> stats,
          extents |-> extents, live |-> live, intact |-> intact, status |-> status,
          mutex |-> mutex, pages |-> pages, self |-> "t1",
          ret |-> NULL, blk |-> NULL, merges |-> <<>>, place |-> <<>>, splits |-> <<>>,
          copied |-> FALSE, snap |-> ZeroStats, mmap_failed |-> FALSE,
          mutex_failed |-> FALSE, fallback |-> FALSE, prot_fault |-> FALSE]

(* The run of calls after the call l that has led to S: allocations served *)
(* without a new mapping, then frees of the pointers they returned         *)
History(S, l) ==
    IF S.status # "ok" THEN NoHist
    ELSE IF l.op = "init"
    THEN IF l.ret = 1 THEN [pure |-> TRUE, allocs |-> <<>>, frees |-> <<>>] ELSE NoHist
    ELSE IF ~hist.pure THEN NoHist
    ELSE IF l.op = "stats" THEN hist
    ELSE IF l.op = "alloc" /\ l.ret # NULL /\ hist.frees = <<>> /\ S.extents = extents
    THEN [hist EXCEPT !.allocs = Append(@, [ptr |-> l.ret, size |-> l.size])]
    ELSE IF /\ l.op = "free"
            /\ \E i \in 1..Len(hist.allocs) : hist.allocs[i].ptr = l.ptr
            /\ \A i \in 1..Len(hist.frees) : hist.frees[i] # l.ptr
    THEN [hist EXCEPT !.frees = Append(@, l.ptr)]
    ELSE NoHist

(* The variables that hold the program's memory and allocator_state *)
Store(S) ==
    /\ mutex' = S.mutex
    /\ pages' = S.pages
    /\ mem' = S.mem
    /\ free_list' = S.free_list
    /\ used_list' = S.used_list
    /\ heap_start' = S.heap_start
    /\ heap_size' = S.heap_size
    /\ page_size' = S.page_size
    /\ initialized' = S.initialized
    /\ config' = S.config
    /\ stats' = S.stats
    /\ extents' = S.extents
    /\ live' = S.live
    /\ intact' = S.intact
    /\ status' = S.status

(* The variables after a call by the one client thread of Spec *)
Commit(S, l) ==
    /\ hist' = History(S, l)
    /\ pc' = pc
    /\ Store(S)
    /\ last' = l
    /\ calls' = IF \/ l.op = "realloc"
                   \/ (l.op = "alloc_aligned" /\ l.done /\ l.ret # NULL)
                   \/ (l.op = "init" /\ l.done /\ l.ret = 1)
                THEN [calls EXCEPT ![l.op] = @ + 1]
                ELSE calls

Overlap(lo1, hi1, lo2, hi2) == lo1 < hi2 /\ lo2 < hi1

(* [a, a+len) lies inside one mapping *)
InMapping(S, a, len) ==
    \E e \in S.extents : e.base <= a /\ a + len <= e.base + e.size

Mapped(S, a) == InMapping(S, a, HDR_FIELDS)

Hdr(S, a) == IF a \in DOMAIN S.mem THEN S.mem[a] ELSE ZeroHdr

FieldOff(f) ==
    CASE f = "size" -> 0
      [] f = "is_free" -> 8
      [] f = "protection" -> 12
      [] f = "next" -> 16
      [] f = "prev" -> 24

FieldLen(f) ==
    CASE f = "size" -> 8
      [] f = "is_free" -> 1
      [] f = "protection" -> 4
      [] f = "next" -> 8
      [] f = "prev" -> 8

(* The bytes [lo, hi) are overwritten: client data there is lost *)
Clobber(S, lo, hi) ==
    {p \in S.intact : ~Overlap(lo, hi, p, p + S.live[p].n)}

(* (protection & flag) != 0, flag a single bit *)
HasFlag(protection, flag) == (protection \div flag) % 2 = 1

(* No page of [lo, hi) has lost PROT_WRITE *)
Writable(S, lo, hi) ==
    \A pg \in DOMAIN S.pages :
        Overlap(lo, hi, pg, pg + S.page_size) => HasFlag(S.pages[pg], MEM_WRITE)

(* block->f = v *)
SetField(S, a, f, v) ==
    IF S.status # "ok" THEN S
    ELSE IF ~Mapped(S, a) THEN [S EXCEPT !.status = "fault"]
    ELSE IF ~Writable(S, a + FieldOff(f), a + FieldOff(f) + FieldLen(f))
    THEN [S EXCEPT !.status = "fault", !.prot_fault = TRUE]
    ELSE [S EXCEPT
            !.mem = [x \in (DOMAIN S.mem) \cup {a} |->
                        IF x = a THEN [Hdr(S, a) EXCEPT ![f] = v] ELSE S.mem[x]],
            !.intact = Clobber(S, a + FieldOff(f), a + FieldOff(f) + FieldLen(f))]

Fault(S) == IF S.status = "ok" THEN [S EXCEPT !.status = "fault"] ELSE S
Hang(S) == IF S.status = "ok" THEN [S EXCEPT !.status = "hang"] ELSE S
Corrupt(S) == IF S.status = "ok" THEN [S EXCEPT !.status = "corrupt"] ELSE S

(* pthread_mutex_lock by the calling thread.  Locking a mutex the thread   *)
(* holds never returns; locking one that is not initialised is undefined.  *)
(* (A thread that finds the mutex held by another one waits: the callers   *)
(* take that step only when the mutex is free.)                            *)
Lock(S) ==
    IF S.status # "ok" THEN S
    ELSE IF S.mutex = "free" THEN [S EXCEPT !.mutex = S.self]
    ELSE IF S.mutex = S.self THEN [S EXCEPT !.status = "deadlock"]
    ELSE [S EXCEPT !.status = "badlock"]

(* pthread_mutex_unlock *)
Unlock(S) ==
    IF S.status # "ok" THEN S
    ELSE IF S.mutex = S.self THEN [S EXCEPT !.mutex = "free"]
    ELSE [S EXCEPT !.status = "badlock"]

InSeq(x, s) == \E i \in 1..Len(s) : s[i] = x

(* The nodes met by following next from head, and how the walk ends:       *)
(* at NULL, at a node it has met before (the list is cyclic), or at an     *)
(* address outside every mapping.                                          *)
RECURSIVE ChainFrom(_, _, _)
ChainFrom(S, a, acc) ==
    IF a = NULL THEN [nodes |-> acc, end |-> "null"]
    ELSE IF ~Mapped(S, a) THEN [nodes |-> acc, end |-> "fault"]
    ELSE IF InSeq(a, acc) THEN [nodes |-> acc, end |-> "cycle"]
    ELSE ChainFrom(S, Hdr(S, a).next, Append(acc, a))

Chain(S, head) == ChainFrom(S, head, <<>>)

(* A walk that ran off the list without finding what it looked for *)
WalkEnd(S, ch) ==
    IF ch.end = "cycle" THEN Hang(S)
    ELSE IF ch.end = "fault" THEN Fault(S)
    ELSE S

FirstIdx(s, P(_)) ==
    IF \E i \in 1..Len(s) : P(s[i])
    THEN CHOOSE i \in 1..Len(s) : P(s[i]) /\ \A j \in 1..(i - 1) : ~P(s[j])
    ELSE 0

-----------------------------------------------------------------------------
(* Helper functions of allocator.c *)

calculate_total_size(requested_size) == Add(requested_size, HDR)

round_up_to_page_size(S, size) ==
    (((Add(Add(size, S.page_size), SIZE_MAX)) \div S.page_size) * S.page_size) % SizeMod

(* What the placement scan looks at: the free list in link order *)
Snapshot(S, nodes) ==
    [i \in 1..Len(nodes) |->
        [addr |-> nodes[i], size |-> Hdr(S, nodes[i]).size, is_free |-> Hdr(S, nodes[i]).is_free]]

(* A scan that lets a later block of equal surplus replace the earlier one *)
RECURSIVE BestFitScan_LaterTie(_, _, _, _, _, _)
BestFitScan_LaterTie(S, nodes, i, size, best_fit, smallest_size_diff) ==
    IF i > Len(nodes) THEN best_fit
    ELSE LET current == Hdr(S, nodes[i])
             size_diff == Sub(current.size, size)
         IN IF current.is_free /\ current.size >= size /\ size_diff <= smallest_size_diff
            THEN BestFitScan_LaterTie(S, nodes, i + 1, size, nodes[i], size_diff)
            ELSE BestFitScan_LaterTie(S, nodes, i + 1, size, best_fit, smallest_size_diff)

(* The best-fit loop of find_free_block, from position i on *)
RECURSIVE BestFitScan(_, _, _, _, _, _)
BestFitScan(S, nodes, i, size, best_fit, smallest_size_diff) ==
    IF i > Len(nodes) THEN best_fit
    ELSE LET current == Hdr(S, nodes[i])
             size_diff == Sub(current.size, size)
         IN IF current.is_free /\ current.size >= size /\ size_diff < smallest_size_diff
            THEN BestFitScan(S, nodes, i + 1, size, nodes[i], size_diff)
            ELSE BestFitScan(S, nodes, i + 1, size, best_fit, smallest_size_diff)

RECURSIVE WorstFitScan(_, _, _, _, _, _)
WorstFitScan(S, nodes, i, size, best_fit, largest_size_diff) ==
    IF i > Len(nodes) THEN best_fit
    ELSE LET current == Hdr(S, nodes[i])
             size_diff == Sub(current.size, size)
         IN IF current.is_free /\ current.size >= size /\ size_diff > largest_size_diff
            THEN WorstFitScan(S, nodes, i + 1, size, nodes[i], size_diff)
            ELSE WorstFitScan(S, nodes, i + 1, size, best_fit, largest_size_diff)

FirstFitScan(S, ch, size) ==
    LET i == FirstIdx(ch.nodes, LAMBDA c : Hdr(S, c).is_free /\ Hdr(S, c).size >= size)
    IN IF i > 0 THEN [S EXCEPT !.blk = ch.nodes[i]]
       ELSE [WalkEnd(S, ch) EXCEPT !.blk = NULL]

(* find_free_block: the result is left in .blk *)
FindIn(S, ch, size) ==
    LET strategy == S.config.allocation_strategy
    IN CASE strategy = 0 -> FirstFitScan(S, ch, size)
         [] strategy = 1 ->
              IF ch.end # "null" THEN [WalkEnd(S, ch) EXCEPT !.blk = NULL]
              ELSE [S EXCEPT !.blk = BestFitScan(S, ch.nodes, 1, size, NULL, SIZE_MAX)]
         [] strategy = 2 ->
              IF ch.end # "null" THEN [WalkEnd(S, ch) EXCEPT !.blk = NULL]
              ELSE [S EXCEPT !.blk = WorstFitScan(S, ch.nodes, 1, size, NULL, 0)]
         [] OTHER -> FirstFitScan(S, ch, size)

Placed(R, list, size) ==
    IF R.status # "ok" THEN R
    ELSE [R EXCEPT !.place = Append(R.place,
             [strategy |-> R.config.allocation_strategy, size |-> size,
              list |-> list, chosen |-> R.blk])]

find_free_block(S, size) ==
    IF S.status # "ok" THEN S
    ELSE Placed(FindIn(S, Chain(S, S.free_list), size),
                Snapshot(S, Chain(S, S.free_list).nodes), size)

(* split_block: the body of the if, new_block = block + size *)
SplitAt(S, block, size, new_block) ==
    LET W1(T) == SetField(T, new_block, "size", Sub(Hdr(T, block).size, size))
        W2(T) == SetField(T, new_block, "is_free", TRUE)
        W3(T) == SetField(T, new_block, "protection", Hdr(T, block).protection)
        W4(T) == SetField(T, new_block, "next", Hdr(T, block).next)
        W5(T) == SetField(T, new_block, "prev", block)
        W6(T) == SetField(T, block, "size", size)
        W7(T) == SetField(T, block, "next", new_block)
        W8(T) == IF Hdr(T, new_block).next # NULL
                 THEN SetField(T, Hdr(T, new_block).next, "prev", new_block)
                 ELSE T
        W9(T) == IF T.status = "ok" /\ T.free_list = NULL
                 THEN [T EXCEPT !.free_list = new_block]
                 ELSE T
        W10(T) == IF T.status = "ok"
                  THEN [T EXCEPT !.splits = Append(T.splits,
                                     [block |-> block, new_block |-> new_block])]
                  ELSE T
    IN W10(W9(W8(W7(W6(W5(W4(W3(W2(W1(S))))))))))

(* split_block *)
split_block(S, block, size) ==
    IF S.status # "ok" THEN S
    ELSE LET min_block_size == HDR + MIN_PAYLOAD
         IN IF Hdr(S, block).size >= Add(size, min_block_size)
            THEN SplitAt(S, block, size, block + size)
            ELSE S

(* What the control flow of the merge loop depends on: links and flags *)
Links(S) == [a \in DOMAIN S.mem |-> <<S.mem[a].next, S.mem[a].is_free>>]

(* merge_free_blocks: the body of the if, current absorbs next_block *)
MergeStep(S, current, next_block) ==
    LET rec == [into |-> current, into_size |-> Hdr(S, current).size,
                absorbed |-> next_block, absorbed_size |-> Hdr(S, next_block).size,
                by |-> "merge"]
        W1(T) == SetField(T, current, "size",
                          Add(Hdr(T, current).size, Hdr(T, next_block).size))
        W2(T) == SetField(T, current, "next", Hdr(T, next_block).next)
        W3(T) == IF Hdr(T, current).next # NULL
                 THEN SetField(T, Hdr(T, current).next, "prev", current)
                 ELSE T
        W4(T) == IF T.status = "ok"
                 THEN [T EXCEPT !.merges = Append(T.merges, rec)]
                 ELSE T
    IN W4(W3(W2(W1(S))))

(* merge_free_blocks: the loop, one iteration per call.  seen holds the     *)
(* loop states (position, links, flags) met so far; meeting one again      *)
(* means the loop never ends.                                              *)
RECURSIVE MergeLoop(_, _, _)
MergeLoop(S, current, seen) ==
    IF S.status # "ok" THEN S
    ELSE IF current = NULL THEN S
    ELSE IF ~Mapped(S, current) THEN Fault(S)
    ELSE IF Hdr(S, current).next = NULL THEN S
    ELSE IF <<current, Links(S)>> \in seen THEN Hang(S)
    ELSE IF ~Mapped(S, Hdr(S, current).next) THEN Fault(S)
    ELSE IF Hdr(S, current).is_free /\ Hdr(S, Hdr(S, current).next).is_free
         THEN MergeLoop(MergeStep(S, current, Hdr(S, current).next), current,
                        seen \cup {<<current, Links(S)>>})
         ELSE MergeLoop(S, Hdr(S, current).next, seen \cup {<<current, Links(S)>>})

(* A coalescer that leaves the free list as it is *)
merge_free_blocks_Skip(S) == S

merge_free_blocks(S) == MergeLoop(S, S.free_list, {})

(* The outcome of mmap(NULL, n, ...): a fresh zero-filled region, placed    *)
(* apart from the regions handed out before, or MAP_FAILED.                *)
Slot(e) == e.base \div ExtentStride
NewExtentBase(S) ==
    ExtentStride * (1 + CHOOSE k \in {0} \cup {Slot(e) : e \in S.extents} :
                            \A e \in S.extents : Slot(e) <= k)
MmapSucceeds(S, ok) == ok /\ Cardinality(S.extents) < MaxExtents

(* extend_heap: the new block is put at the end of the free list *)
AppendToFreeList(S, ch, new_block) ==
    IF ch.end # "null" THEN WalkEnd(S, ch)
    ELSE SetField(SetField(S, ch.nodes[Len(ch.nodes)], "next", new_block),
                  new_block, "prev", ch.nodes[Len(ch.nodes)])

(* extend_heap after a successful mmap of aligned_size bytes at new_block *)
ExtendAt(S, new_block, aligned_size) ==
    LET W0(T) == [T EXCEPT !.extents = T.extents \cup
                               {[base |-> new_block, size |-> aligned_size]}]
        W1(T) == SetField(T, new_block, "size", aligned_size)
        W2(T) == SetField(T, new_block, "is_free", TRUE)
        W3(T) == SetField(T, new_block, "protection", MEM_READ + MEM_WRITE)
        W4(T) == SetField(T, new_block, "next", NULL)
        W5(T) == SetField(T, new_block, "prev", NULL)
        W6(T) == IF T.free_list = NULL
                 THEN [T EXCEPT !.free_list = new_block]
                 ELSE AppendToFreeList(T, Chain(T, T.free_list), new_block)
        W7(T) == IF T.status # "ok" THEN T
                 ELSE [T EXCEPT !.heap_size = Add(T.heap_size, aligned_size),
                                !.stats.total_memory = Add(T.stats.total_memory, aligned_size),
                                !.stats.free_memory = Add(T.stats.free_memory, aligned_size),
                                !.blk = new_block]
    IN W7(W6(W5(W4(W3(W2(W1(W0(S))))))))

(* An extension that counts the new memory before it knows the mapping    *)
(* has succeeded                                                           *)
extend_heap_CountFirst(S, size, mmap_ok) ==
    IF S.status # "ok" THEN S
    ELSE IF ~MmapSucceeds(S, mmap_ok)
    THEN [S EXCEPT !.blk = NULL, !.mmap_failed = TRUE,
                   !.heap_size = Add(S.heap_size, round_up_to_page_size(S, size)),
                   !.stats.total_memory =
                       Add(S.stats.total_memory, round_up_to_page_size(S, size))]
    ELSE ExtendAt(S, NewExtentBase(S), round_up_to_page_size(S, size))

(* extend_heap: the result is left in .blk *)
extend_heap(S, size, mmap_ok) ==
    IF S.status # "ok" THEN S
    ELSE IF ~MmapSucceeds(S, mmap_ok) THEN [S EXCEPT !.blk = NULL, !.mmap_failed = TRUE]
    ELSE ExtendAt(S, NewExtentBase(S), round_up_to_page_size(S, size))

(* current->next = block->next, with the prev link of the successor *)
Bypass(S, current, block) ==
    LET W1(T) == SetField(T, current, "next", Hdr(T, block).next)
        W2(T) == IF Hdr(T, block).next # NULL
                 THEN SetField(T, Hdr(T, block).next, "prev", current)
                 ELSE T
    IN W2(W1(S))

UnlinkIn(S, ch, block) ==
    LET i == FirstIdx(ch.nodes, LAMBDA c : Hdr(S, c).next = block)
    IN IF i > 0 THEN Bypass(S, ch.nodes[i], block) ELSE WalkEnd(S, ch)

(* Unlink block from the list starting at head, as mark_block_used and      *)
(* mark_block_free do (the head test is done by the callers).              *)
UnlinkAfterHead(S, head, block) == UnlinkIn(S, Chain(S, head), block)

(* The statistics update at the end of mark_block_used *)
UsedAccounting(S, size) ==
    LET used == Add(S.stats.used_memory, size)
    IN [S EXCEPT
          !.stats.used_memory = used,
          !.stats.free_memory = Sub(S.stats.free_memory, size),
          !.stats.active_allocations = Add(S.stats.active_allocations, 1),
          !.stats.total_allocations = Add(S.stats.total_allocations, 1),
          !.stats.peak_usage = IF used > S.stats.peak_usage THEN used ELSE S.stats.peak_usage]

(* mark_block_used *)
mark_block_used(S, block) ==
    LET W1(T) == IF T.free_list = block
                 THEN [T EXCEPT !.free_list = Hdr(T, block).next]
                 ELSE UnlinkAfterHead(T, T.free_list, block)
        W2(T) == SetField(T, block, "next", T.used_list)
        W3(T) == SetField(T, block, "prev", NULL)
        W4(T) == IF T.used_list # NULL THEN SetField(T, T.used_list, "prev", block) ELSE T
        W5(T) == IF T.status # "ok" THEN T ELSE [T EXCEPT !.used_list = block]
        W6(T) == SetField(T, block, "is_free", FALSE)
        W7(T) == IF T.status # "ok" THEN T ELSE UsedAccounting(T, Hdr(T, block).size)
    IN IF S.status # "ok" THEN S
       ELSE W7(W6(W5(W4(W3(W2(W1(S)))))))

(* An accounting that takes the block out of used_memory without adding   *)
(* it to free_memory                                                       *)
FreeAccounting_NoCredit(S, size) ==
    [S EXCEPT
       !.stats.used_memory = Sub(S.stats.used_memory, size),
       !.stats.active_allocations = Sub(S.stats.active_allocations, 1)]

(* The statistics update at the end of mark_block_free *)
FreeAccounting(S, size) ==
    [S EXCEPT
       !.stats.used_memory = Sub(S.stats.used_memory, size),
       !.stats.free_memory = Add(S.stats.free_memory, size),
       !.stats.active_allocations = Sub(S.stats.active_allocations, 1)]

(* mark_block_free *)
mark_block_free(S, block) ==
    LET W1(T) == IF T.used_list = block
                 THEN [T EXCEPT !.used_list = Hdr(T, block).next]
                 ELSE UnlinkAfterHead(T, T.used_list, block)
        W2(T) == SetField(T, block, "next", T.free_list)
        W3(T) == SetField(T, block, "prev", NULL)
        W4(T) == IF T.free_list # NULL THEN SetField(T, T.free_list, "prev", block) ELSE T
        W5(T) == IF T.status # "ok" THEN T ELSE [T EXCEPT !.free_list = block]
        W6(T) == SetField(T, block, "is_free", TRUE)
        W7(T) == IF T.status # "ok" THEN T ELSE FreeAccounting(T, Hdr(T, block).size)
    IN IF S.status # "ok" THEN S
       ELSE W7(W6(W5(W4(W3(W2(W1(S)))))))

RECURSIVE LargestFree(_, _, _, _)
LargestFree(S, nodes, i, largest_free_block) ==
    IF i > Len(nodes) THEN largest_free_block
    ELSE LET current == Hdr(S, nodes[i])
         IN IF current.is_free /\ current.size > largest_free_block
            THEN LargestFree(S, nodes, i + 1, current.size)
            ELSE LargestFree(S, nodes, i + 1, largest_free_block)

FragmentationOver(S, ch) ==
    IF ch.end # "null" THEN WalkEnd(S, ch)
    ELSE [S EXCEPT !.stats.fragmentation_ratio =
             [largest |-> LargestFree(S, ch.nodes, 1, 0), free |-> S.stats.free_memory]]

(* update_fragmentation_ratio: the ratio 1 - largest/free is kept as the    *)
(* pair (largest, free); free = 0 stands for the ratio 0.0.                *)
update_fragmentation_ratio(S) ==
    IF S.status # "ok" THEN S
    ELSE IF S.stats.free_memory = 0
    THEN [S EXCEPT !.stats.fragmentation_ratio = [largest |-> 0, free |-> 0]]
    ELSE FragmentationOver(S, Chain(S, S.free_list))

-----------------------------------------------------------------------------
(* Writes of data (not header fields) into the heap *)

SeqToSet(s) == {s[i] : i \in 1..Len(s)}

(* The headers the allocator may still read: those on either list and      *)
(* those of the blocks the client holds.                                   *)
ProtectedHdrs(S) ==
    SeqToSet(Chain(S, S.free_list).nodes) \cup SeqToSet(Chain(S, S.used_list).nodes)
        \cup {S.live[p].base : p \in DOMAIN S.live}

HitsHeader(S, lo, hi) ==
    \E a \in ProtectedHdrs(S) : Overlap(lo, hi, a, a + HDR_FIELDS)

(* The allocator itself stores data bytes in [lo, hi) *)
DataWrite(S, lo, hi) ==
    IF S.status # "ok" \/ lo = hi THEN S
    ELSE IF ~InMapping(S, lo, hi - lo) \/ ~Writable(S, lo, hi) THEN Fault(S)
    ELSE IF HitsHeader(S, lo, hi) THEN Corrupt(S)
    ELSE [S EXCEPT !.intact = Clobber(S, lo, hi)]

(* memcpy(dest, src, len); overlapping ranges are undefined *)
memcpy(S, dest, src, len) ==
    IF S.status # "ok" \/ len = 0 THEN S
    ELSE IF ~InMapping(S, src, len) THEN Fault(S)
    ELSE IF Overlap(dest, dest + len, src, src + len) THEN Corrupt(S)
    ELSE DataWrite(S, dest, dest + len)

(* The client writes its n bytes at q when that is harmless, and           *)
(* otherwise leaves the region untouched.                                  *)
ClientFill(S, q, lo, hi) ==
    IF /\ S.status = "ok" /\ InMapping(S, q, hi - q) /\ Writable(S, lo, hi)
       /\ ~HitsHeader(S, lo, hi)
    THEN [S EXCEPT !.intact = Clobber(S, lo, hi) \cup {q}]
    ELSE [S EXCEPT !.intact = S.intact \ {q}]

Hold(S, q, n, base, aligned) ==
    [S EXCEPT !.live = [x \in (DOMAIN S.live) \cup {q} |->
                           IF x = q THEN [n |-> n, base |-> base, aligned |-> aligned]
                           ELSE S.live[x]]]

Drop(S, q) ==
    [S EXCEPT !.live = [x \in (DOMAIN S.live) \ {q} |-> S.live[x]],
              !.intact = S.intact \ {q}]

-----------------------------------------------------------------------------
(* Public API *)

SysPageSize == PageSize

(* allocator_init after mmap and pthread_mutex_init have succeeded *)
InitAt(S, initial_heap, aligned_heap_size) ==
    LET W0(T) == [T EXCEPT !.extents = T.extents \cup
                               {[base |-> initial_heap, size |-> aligned_heap_size]}]
        W1(T) == SetField(T, initial_heap, "size", aligned_heap_size)
        W2(T) == SetField(T, initial_heap, "is_free", TRUE)
        W3(T) == SetField(T, initial_heap, "protection", MEM_READ + MEM_WRITE)
        W4(T) == SetField(T, initial_heap, "next", NULL)
        W5(T) == SetField(T, initial_heap, "prev", NULL)
        W6(T) == IF T.status # "ok" THEN T
                 ELSE [T EXCEPT
                         !.heap_start = initial_heap,
                         !.heap_size = aligned_heap_size,
                         !.free_list = initial_heap,
                         !.used_list = NULL,
                         !.initialized = TRUE,
                         !.stats = [total_memory |-> aligned_heap_size, used_memory |-> 0,
                                    free_memory |-> aligned_heap_size, overhead |-> HDR,
                                    peak_usage |-> 0, total_allocations |-> 0,
                                    active_allocations |-> 0,
                                    fragmentation_ratio |-> [largest |-> 0, free |-> 0]],
                         !.ret = 1]
    IN W6(W5(W4(W3(W2(W1(W0(S)))))))

(* allocator_init once the configuration is stored *)
InitWith(S, cfg, mmap_ok, mutex_ok) ==
    IF ~MmapSucceeds(S, mmap_ok) THEN [S EXCEPT !.ret = 0, !.mmap_failed = TRUE]
    ELSE IF ~mutex_ok THEN [S EXCEPT !.ret = 0, !.mutex_failed = TRUE]
    ELSE InitAt([S EXCEPT !.mutex = "free"], NewExtentBase(S),
                round_up_to_page_size(S, cfg.initial_heap_size))

(* allocator_init past the test of initialized *)
InitBody(S, cfg, mmap_ok, mutex_ok) ==
    InitWith([S EXCEPT !.config = cfg,
                       !.page_size = IF cfg.page_size = 0 THEN SysPageSize
                                     ELSE cfg.page_size],
             cfg, mmap_ok, mutex_ok)

(* allocator_init: the result (true/false) is left in .ret as 1/0 *)
allocator_init(S, cfg, mmap_ok, mutex_ok) ==
    IF S.initialized THEN [S EXCEPT !.ret = 0]
    ELSE InitBody(S, cfg, mmap_ok, mutex_ok)

(* mem_alloc once a block has been found or mapped (it is in .blk) *)
AllocFrom(S, total_size) ==
    LET W1(T) == split_block(T, S.blk, total_size)
        W2(T) == mark_block_used(T, S.blk)
        W3(T) == update_fragmentation_ratio(T)
        W4(T) == IF T.status # "ok" THEN T ELSE [T EXCEPT !.ret = S.blk + HDR]
    IN IF S.status # "ok" THEN S
       ELSE IF S.blk = NULL THEN Unlock([S EXCEPT !.ret = NULL])
       ELSE W4(Unlock(W3(W2(W1(S)))))

(* mem_alloc from pthread_mutex_lock on, the mutex held *)
AllocLocked(S, size, mmap_ok) ==
    LET total_size == calculate_total_size(size)
        W1(T) == find_free_block(T, total_size)
        W2(T) == IF T.status = "ok" /\ T.blk = NULL
                 THEN extend_heap(T, total_size, mmap_ok)
                 ELSE T
    IN AllocFrom(W2(W1(S)), total_size)

(* mem_alloc: the returned pointer is left in .ret *)
mem_alloc(S, size, mmap_ok) ==
    IF S.status # "ok" THEN S
    ELSE IF size = 0 \/ ~S.initialized THEN [S EXCEPT !.ret = NULL]
    ELSE AllocLocked(Lock(S), size, mmap_ok)

(* A rounding that adds alignment - 1 and leaves the low bits in place *)
AlignUp_NoClear(addr, alignment) == addr + alignment - 1

(* (addr + alignment - 1) & ~(alignment - 1): for a power of two the mask   *)
(* clears the bits below alignment, which takes off the remainder          *)
AlignUp(addr, alignment) ==
    (addr + alignment - 1) - ((addr + alignment - 1) % alignment)

(* A test that lets every alignment through *)
IsPowerOfTwo_Any(x) == TRUE

IsPowerOfTwo(x) == x \in {2^k : k \in 0..15}

(* mem_alloc_aligned once mem_alloc has returned raw_ptr (in .ret) *)
AlignIn(S, alignment) ==
    LET raw_ptr == S.ret
        aligned_addr == AlignUp(raw_ptr + PTR_SIZE, alignment)
        W1(T) == DataWrite(T, aligned_addr - PTR_SIZE, aligned_addr)
        W2(T) == IF T.status # "ok" THEN T
                 ELSE [T EXCEPT !.ret = aligned_addr, !.blk = raw_ptr]
    IN IF S.status # "ok" \/ raw_ptr = NULL THEN S
       ELSE W2(W1(S))

(* mem_alloc_aligned: .ret is the aligned pointer, .blk the raw one *)
mem_alloc_aligned(S, size, alignment, mmap_ok) ==
    IF S.status # "ok" THEN S
    ELSE IF size = 0 \/ ~S.initialized \/ alignment = 0 THEN [S EXCEPT !.ret = NULL]
    ELSE IF ~IsPowerOfTwo(alignment) THEN [S EXCEPT !.ret = NULL]
    ELSE AlignIn(mem_alloc(S, Add(size, Add(alignment, PTR_SIZE)), mmap_ok), alignment)

(* mem_free: the search of the used list for the block *)
FreeIn(S, ch, block) ==
    IF ~InSeq(block, ch.nodes) THEN Unlock(WalkEnd(S, ch))
    ELSE Unlock(update_fragmentation_ratio(merge_free_blocks(mark_block_free(S, block))))

(* mem_free from pthread_mutex_lock on, the mutex held *)
FreeLocked(S, ptr) == FreeIn(S, Chain(S, S.used_list), ptr - HDR)

(* mem_free *)
mem_free(S, ptr) ==
    IF S.status # "ok" THEN S
    ELSE IF ptr = NULL \/ ~S.initialized THEN S
    ELSE FreeLocked(Lock(S), ptr)

(* mem_realloc: the new size fits the block, which is split *)
ReallocShrink(S, ptr, block, total_size) ==
    LET W1(T) == split_block(T, block, total_size)
        W2(T) == update_fragmentation_ratio(T)
        W3(T) == IF T.status # "ok" THEN T ELSE [T EXCEPT !.ret = ptr]
    IN W3(Unlock(W2(W1(S))))

(* mem_realloc: the block takes over its list successor next_block *)
ReallocInPlace(S, ptr, block, next_block, total_size) ==
    LET combined_size == Add(Hdr(S, block).size, Hdr(S, next_block).size)
        rec == [into |-> block, into_size |-> Hdr(S, block).size,
                absorbed |-> next_block, absorbed_size |-> Hdr(S, next_block).size,
                by |-> "realloc"]
        W1(T) == IF T.free_list = next_block
                 THEN [T EXCEPT !.free_list = Hdr(T, next_block).next]
                 ELSE UnlinkAfterHead(T, T.free_list, next_block)
        W2(T) == SetField(T, block, "size", combined_size)
        W3(T) == SetField(T, block, "next", Hdr(T, next_block).next)
        W4(T) == IF Hdr(T, next_block).next # NULL
                 THEN SetField(T, Hdr(T, next_block).next, "prev", block)
                 ELSE T
        W5(T) == split_block(T, block, total_size)
        W6(T) == IF T.status # "ok" THEN T
                 ELSE [T EXCEPT
                         !.stats.free_memory =
                             Sub(T.stats.free_memory, Sub(total_size, Hdr(T, block).size)),
                         !.stats.used_memory =
                             Add(T.stats.used_memory, Sub(total_size, Hdr(T, block).size))]
        W7(T) == update_fragmentation_ratio(T)
        W8(T) == IF T.status # "ok" THEN T
                 ELSE [T EXCEPT !.ret = ptr, !.merges = Append(T.merges, rec)]
    IN W8(Unlock(W7(W6(W5(W4(W3(W2(W1(S)))))))))

(* mem_realloc: the copy into the block mem_alloc has returned (new_ptr),   *)
(* made after the mutex has been released; old_n is the number of bytes    *)
(* the client had at ptr                                                   *)
ReallocCopy(S, ptr, block, size, old_n, new_ptr) ==
    LET user_size == Sub(Hdr(S, block).size, HDR)
        len == IF user_size < size THEN user_size ELSE size
        kept == ptr \in S.intact /\ len >= S.live[ptr].n
        n == IF old_n < size THEN old_n ELSE size
        W1(T) == memcpy(T, new_ptr, ptr, len)
        \* from here on the bytes at new_ptr are the client's data
        W2(T) == IF T.status # "ok" THEN T
                 ELSE Hold(Drop(T, new_ptr), new_ptr, n, new_ptr - HDR, FALSE)
        W3(T) == IF T.status = "ok" /\ kept
                 THEN [T EXCEPT !.intact = T.intact \cup {new_ptr}]
                 ELSE T
    IN IF S.status = "ok" /\ ~Mapped(S, block) THEN Fault(S)
       ELSE W3(W2(W1(S)))

(* mem_realloc: copy into the block mem_alloc has returned (in .ret) and   *)
(* free the old one                                                        *)
ReallocCopyFree(S, ptr, block, size, old_n) ==
    LET new_ptr == S.ret
        W1(T) == ReallocCopy(T, ptr, block, size, old_n, new_ptr)
        W4(T) == mem_free(T, ptr)
        W5(T) == IF T.status # "ok" THEN T
                 ELSE [T EXCEPT !.ret = new_ptr, !.copied = TRUE]
    IN IF S.status # "ok" \/ new_ptr = NULL THEN S
       ELSE W5(W4(W1(S)))

(* A realloc that keeps the mutex when it falls back on mem_alloc *)
ReallocLocked_Held(S, ptr, block, next_block, total_size) ==
    IF ~Mapped(S, block) THEN Fault(S)
    ELSE IF total_size <= Hdr(S, block).size
    THEN ReallocShrink(S, ptr, block, total_size)
    ELSE IF next_block # NULL /\ ~Mapped(S, next_block) THEN Fault(S)
    ELSE IF /\ next_block # NULL
            /\ Hdr(S, next_block).is_free
            /\ Add(Hdr(S, block).size, Hdr(S, next_block).size) >= total_size
    THEN ReallocInPlace(S, ptr, block, next_block, total_size)
    ELSE [S EXCEPT !.fallback = TRUE]

(* mem_realloc from pthread_mutex_lock on, the mutex held, up to the       *)
(* return or to the unlock before the call of mem_alloc (.fallback)        *)
ReallocLocked(S, ptr, block, next_block, total_size) ==
    IF ~Mapped(S, block) THEN Fault(S)
    ELSE IF total_size <= Hdr(S, block).size
    THEN ReallocShrink(S, ptr, block, total_size)
    ELSE IF next_block # NULL /\ ~Mapped(S, next_block) THEN Fault(S)
    ELSE IF /\ next_block # NULL
            /\ Hdr(S, next_block).is_free
            /\ Add(Hdr(S, block).size, Hdr(S, next_block).size) >= total_size
    THEN ReallocInPlace(S, ptr, block, next_block, total_size)
    ELSE [Unlock(S) EXCEPT !.fallback = TRUE]

(* mem_realloc past the argument checks *)
ReallocBlock(S, ptr, block, next_block, size, total_size, mmap_ok) ==
    LET W1(T) == ReallocLocked(T, ptr, block, next_block, total_size)
        W2(T) == IF T.status = "ok" /\ T.fallback
                 THEN ReallocCopyFree(mem_alloc(T, size, mmap_ok), ptr, block, size,
                                      S.live[ptr].n)
                 ELSE T
    IN W2(W1(S))

(* mem_realloc: the returned pointer is left in .ret; .copied tells        *)
(* whether the allocate-copy-free path was taken                           *)
mem_realloc(S, ptr, size, mmap_ok) ==
    IF S.status # "ok" THEN S
    ELSE IF ptr = NULL THEN mem_alloc(S, size, mmap_ok)
    ELSE IF size = 0 THEN [mem_free(S, ptr) EXCEPT !.ret = NULL]
    ELSE IF ~S.initialized THEN [S EXCEPT !.ret = NULL]
    ELSE ReallocBlock(Lock(S), ptr, ptr - HDR, Hdr(S, ptr - HDR).next, size,
                      calculate_total_size(size), mmap_ok)

(* The pages of [lo, hi) *)
PagesOf(S, lo, hi) == {pg \in lo..(hi - 1) : (pg - lo) % S.page_size = 0}

(* mprotect(lo, hi - lo, prot): it fails when a page of the range is not   *)
(* mapped, and may fail for reasons of the OS (ok = FALSE); the result     *)
(* (0 or -1) is left in .ret as 1 or 0                                     *)
mprotect(S, lo, hi, prot, ok) ==
    IF ok /\ \A pg \in PagesOf(S, lo, hi) : InMapping(S, pg, S.page_size)
    THEN [S EXCEPT !.ret = 1,
                   !.pages = [pg \in (DOMAIN S.pages) \cup PagesOf(S, lo, hi) |->
                                 IF pg \in PagesOf(S, lo, hi) THEN prot ELSE S.pages[pg]]]
    ELSE [S EXCEPT !.ret = 0]

(* mem_protect past the argument checks, the mutex held *)
ProtectLocked(S, ptr, size, protection, ok) ==
    LET prot == (IF HasFlag(protection, MEM_READ) THEN MEM_READ ELSE 0)
                + (IF HasFlag(protection, MEM_WRITE) THEN MEM_WRITE ELSE 0)
                + (IF HasFlag(protection, MEM_EXEC) THEN MEM_EXEC ELSE 0)
        page_addr == ptr - (ptr % S.page_size)
        len == (size + (ptr - page_addr) + S.page_size - 1)
               - ((size + (ptr - page_addr) + S.page_size - 1) % S.page_size)
        W1(T) == mprotect(T, page_addr, page_addr + len, prot, ok)
        W2(T) == IF T.ret = 1 THEN SetField(T, ptr - HDR, "protection", protection) ELSE T
    IN IF S.status # "ok" THEN S
       ELSE Unlock(W2(W1(S)))

(* mem_protect: the result (true/false) is left in .ret as 1/0 *)
mem_protect(S, ptr, size, protection, ok) ==
    IF S.status # "ok" THEN S
    ELSE IF ptr = NULL \/ size = 0 \/ ~S.initialized THEN [S EXCEPT !.ret = 0]
    ELSE ProtectLocked(Lock(S), ptr, size, protection, ok)

(* allocator_get_stats from pthread_mutex_lock on, the mutex held *)
StatsLocked(S) ==
    LET W1(T) == IF T.status # "ok" THEN T ELSE [T EXCEPT !.snap = T.stats]
    IN Unlock(W1(S))

(* allocator_get_stats: the snapshot is left in .snap *)
allocator_get_stats(S) ==
    IF S.status # "ok" THEN S
    ELSE IF ~S.initialized THEN [S EXCEPT !.snap = ZeroStats]
    ELSE StatsLocked(Lock(S))

(* munmap(lo, len): the mappings lose the pages of [lo, lo + len), and     *)
(* what was stored there is gone                                           *)
munmap(S, lo, len) ==
    LET hi == lo + len
        Cut(e) == Overlap(e.base, e.base + e.size, lo, hi)
    IN IF S.status # "ok" \/ len = 0 THEN S
       ELSE [S EXCEPT
               !.extents =
                   {e \in S.extents : ~Cut(e)}
                   \cup {[base |-> e.base, size |-> lo - e.base] :
                            e \in {x \in S.extents : Cut(x) /\ x.base < lo}}
                   \cup {[base |-> hi, size |-> e.base + e.size - hi] :
                            e \in {x \in S.extents : Cut(x) /\ x.base + x.size > hi}},
               !.mem = [a \in {x \in DOMAIN S.mem : ~Overlap(x, x + HDR, lo, hi)} |->
                           S.mem[a]],
               !.pages = [pg \in {x \in DOMAIN S.pages :
                                     ~Overlap(x, x + S.page_size, lo, hi)} |-> S.pages[pg]],
               !.intact = Clobber(S, lo, hi)]

(* allocator_cleanup from pthread_mutex_lock to pthread_mutex_unlock *)
CleanupLocked(S) ==
    LET W1(T) == IF T.heap_start # NULL
                 THEN [munmap(T, T.heap_start, T.heap_size) EXCEPT !.heap_start = NULL]
                 ELSE T
        W2(T) == [T EXCEPT !.heap_size = 0, !.free_list = NULL, !.used_list = NULL,
                           !.initialized = FALSE, !.stats = ZeroStats]
    IN IF S.status # "ok" THEN S
       ELSE Unlock(W2(W1(S)))

(* pthread_mutex_destroy; destroying a mutex that is held is undefined *)
MutexDestroy(S) ==
    IF S.status # "ok" THEN S
    ELSE IF S.mutex \in THREADS THEN [S EXCEPT !.status = "badlock"]
    ELSE [S EXCEPT !.mutex = "destroyed"]

(* A teardown that does not test the initialized flag *)
allocator_cleanup_NoTest(S) ==
    IF S.status # "ok" THEN S
    ELSE MutexDestroy(CleanupLocked(Lock(S)))

(* allocator_cleanup *)
allocator_cleanup(S) ==
    IF S.status # "ok" THEN S
    ELSE IF ~S.initialized THEN S
    ELSE MutexDestroy(CleanupLocked(Lock(S)))

-----------------------------------------------------------------------------
(* The program: one client thread calling the public API *)

ZeroConfig == [initial_heap_size |-> 0, page_size |-> 0, use_guard_pages |-> FALSE,
               allocation_strategy |-> 0]

Init ==
    /\ mem = <<>>
    /\ free_list = NULL
    /\ used_list = NULL
    /\ heap_start = NULL
    /\ heap_size = 0
    /\ page_size = 0
    /\ initialized = FALSE
    /\ config = ZeroConfig
    /\ stats = ZeroStats
    /\ extents = {}
    /\ live = <<>>
    /\ intact = {}
    /\ status = "ok"
    /\ calls = [op \in COUNTED |-> 0]
    /\ mutex = "none"
    /\ pages = <<>>
    /\ pc = [t \in THREADS |-> Idle]
    /\ last = NoLast
    /\ hist = NoHist

(* The call has left every field of allocator_state, every header and     *)
(* every mapping as it was                                                 *)
Same(S) ==
    /\ S.mem = mem /\ S.free_list = free_list /\ S.used_list = used_list
    /\ S.heap_start = heap_start /\ S.heap_size = heap_size /\ S.page_size = page_size
    /\ S.initialized = initialized /\ S.config = config /\ S.stats = stats
    /\ S.extents = extents /\ S.mutex = mutex /\ S.pages = pages

Report(S, op, ptr, size, alignment) ==
    [op |-> op, ptr |-> ptr, size |-> size, alignment |-> alignment,
     unchanged |-> Same(S), was_init |-> initialized, snapshot |-> S.snap,
     mmap_failed |-> S.mmap_failed, mutex_failed |-> S.mutex_failed,
     prot_fault |-> S.prot_fault,
     heap |-> IF op = "cleanup"
              THEN [start |-> heap_start, size |-> heap_size, maps |-> extents]
              ELSE [start |-> NULL, size |-> 0, maps |-> {}],
     before |-> IF op = "realloc"
                THEN [used |-> stats.used_memory, free |-> stats.free_memory]
                ELSE [used |-> 0, free |-> 0],
     on_used |-> ptr # NULL /\ InSeq(ptr - HDR, Chain(State, used_list).nodes),
     ret |-> S.ret, raw |-> S.blk, done |-> (S.status = "ok"),
     n |-> IF ptr \in DOMAIN live THEN live[ptr].n ELSE 0,
     was_intact |-> ptr \in intact,
     preserved |-> S.ret \in S.intact,
     copied |-> S.copied,
     peak_before |-> stats.peak_usage,
     merges |-> S.merges, place |-> S.place]

(* The client takes the pointer q of n bytes and writes its data there *)
Take(S, q, n, base, aligned) ==
    IF S.status # "ok" \/ q = NULL THEN S
    ELSE ClientFill(Hold(Drop(S, q), q, n, base, aligned), q, q, q + n)

(* The client keeps using q, now of size bytes, after realloc; old_n is    *)
(* the number of bytes it had before                                       *)
Retake(S, q, size, old_n) ==
    LET kept == q \in S.intact
        S1 == Hold(S, q, size, q - HDR, FALSE)
    IN IF size > old_n
       THEN IF kept THEN ClientFill(S1, q, q + old_n, q + size)
            ELSE [S1 EXCEPT !.intact = S1.intact \ {q}]
       ELSE S1

DoInit(strategy, mmap_ok, mutex_ok) ==
    /\ status = "ok"
    /\ ~initialized
    /\ calls["init"] < MaxInits
    /\ LET cfg == [initial_heap_size |-> InitialHeapSize, page_size |-> PageSize,
                   use_guard_pages |-> FALSE, allocation_strategy |-> strategy]
           Done(S1) == Commit(S1, Report(S1, "init", NULL, 0, 0))
       IN Done(allocator_init(State, cfg, mmap_ok, mutex_ok))

DoAlloc(size, mmap_ok) ==
    /\ status = "ok"
    /\ initialized
    /\ stats.total_allocations < MaxAllocs
    /\ LET Done(S1) == Commit(Take(S1, S1.ret, size, S1.ret - HDR, FALSE),
                              Report(S1, "alloc", NULL, size, 0))
       IN Done(mem_alloc(State, size, mmap_ok))

DoAllocAligned(size, alignment, mmap_ok) ==
    /\ status = "ok"
    /\ initialized
    /\ stats.total_allocations < MaxAllocs
    /\ LET Done(S1) == Commit(Take(S1, S1.ret, size, S1.blk - HDR, TRUE),
                              Report(S1, "alloc_aligned", NULL, size, alignment))
       IN Done(mem_alloc_aligned(State, size, alignment, mmap_ok))

DoFree(ptr) ==
    /\ status = "ok"
    /\ initialized
    /\ LET Done(S1) == Commit(IF S1.status = "ok" /\ ptr # NULL THEN Drop(S1, ptr) ELSE S1,
                              Report(S1, "free", ptr, 0, 0))
       IN Done(mem_free(State, ptr))

(* The client's last call before it stops *)
Stop(S) == IF S.status = "ok" THEN [S EXCEPT !.status = "end"] ELSE S

(* Pointers that are not the payload address of a block on the used list:  *)
(* none, and the payload addresses of the blocks on the free list (the     *)
(* pointers freed before)                                                  *)
UNKNOWN ==
    {NULL} \cup {a + HDR : a \in {b \in SeqToSet(Chain(State, free_list).nodes) :
                                   ~InSeq(b, Chain(State, used_list).nodes)}}

(* mem_free of a pointer the client does not hold, as its last call *)
DoFreeUnknown(ptr) ==
    /\ status = "ok"
    /\ initialized
    /\ ptr \notin DOMAIN live
    /\ LET Done(S1) == Commit(Stop(S1), Report(S1, "free", ptr, 0, 0))
       IN Done(mem_free(State, ptr))

(* allocator_get_stats in the middle of a run *)
DoStats ==
    /\ status = "ok"
    /\ initialized
    /\ hist.pure
    /\ LET Done(S1) == Commit(S1, Report(S1, "stats", NULL, 0, 0))
       IN Done(allocator_get_stats(State))

(* mem_protect of a pointer the client holds, as its last call *)
DoProtect(ptr, protection, mprotect_ok) ==
    /\ status = "ok"
    /\ initialized
    /\ hist.pure
    /\ LET Done(S1) == Commit(Stop(S1), Report(S1, "protect", ptr, live[ptr].n, 0))
       IN Done(mem_protect(State, ptr, live[ptr].n, protection, mprotect_ok))

(* allocator_cleanup, once the client has freed what it held *)
DoCleanup ==
    /\ status = "ok"
    /\ initialized
    /\ DOMAIN live = {}
    /\ LET Done(S1) == Commit(S1, Report(S1, "cleanup", NULL, 0, 0))
       IN Done(allocator_cleanup(State))

(* allocator_init after allocator_cleanup, as the client's last call *)
DoReinit(strategy, mmap_ok, mutex_ok) ==
    /\ status = "ok"
    /\ ~initialized
    /\ calls["init"] >= 1
    /\ LET cfg == [initial_heap_size |-> InitialHeapSize, page_size |-> PageSize,
                   use_guard_pages |-> FALSE, allocation_strategy |-> strategy]
           Done(S1) == Commit(Stop(S1), Report(S1, "init", NULL, 0, 0))
       IN Done(allocator_init(State, cfg, mmap_ok, mutex_ok))

Request(op, ptr, size, alignment, protection) ==
    [op |-> op, ptr |-> ptr, size |-> size, alignment |-> alignment,
     protection |-> protection]

(* A pointer into the first mapping, as a client may still hold one *)
StalePtr == ExtentStride + HDR

(* Calls made while the allocator is not initialised *)
UNINIT_CALLS ==
    {Request("alloc", NULL, 40, 0, 0), Request("alloc_aligned", NULL, 64, 8, 0),
     Request("free", StalePtr, 0, 0, 0), Request("realloc", StalePtr, 40, 0, 0),
     Request("realloc", NULL, 40, 0, 0), Request("realloc", StalePtr, 0, 0, 0),
     Request("protect", StalePtr, 40, 0, MEM_READ), Request("cleanup", NULL, 0, 0, 0),
     Request("stats", NULL, 0, 0, 0)}

(* Calls with an argument the API rejects *)
INVALID_CALLS ==
    {Request("alloc", NULL, 0, 0, 0), Request("alloc_aligned", NULL, 32, 0, 0),
     Request("alloc_aligned", NULL, 29, 3, 0), Request("protect", NULL, 40, 0, MEM_READ)}

(* The public function the request names *)
Call(S, c, os_ok) ==
    CASE c.op = "alloc" -> mem_alloc(S, c.size, os_ok)
      [] c.op = "alloc_aligned" -> mem_alloc_aligned(S, c.size, c.alignment, os_ok)
      [] c.op = "free" -> mem_free(S, c.ptr)
      [] c.op = "realloc" -> mem_realloc(S, c.ptr, c.size, os_ok)
      [] c.op = "protect" -> mem_protect(S, c.ptr, c.size, c.protection, os_ok)
      [] c.op = "cleanup" -> allocator_cleanup(S)
      [] c.op = "stats" -> allocator_get_stats(S)

(* A call the API is to reject, as the client's last call *)
DoRejected(c, os_ok) ==
    /\ status = "ok"
    /\ c \in IF initialized THEN INVALID_CALLS ELSE UNINIT_CALLS
    /\ LET Done(S1) == Commit(Stop(S1), Report(S1, c.op, c.ptr, c.size, c.alignment))
       IN Done(Call(State, c, os_ok))

DoRealloc(ptr, size, mmap_ok) ==
    /\ status = "ok"
    /\ initialized
    /\ stats.total_allocations < MaxAllocs
    /\ calls["realloc"] < MaxReallocs
    /\ LET old_n == IF ptr = NULL THEN 0 ELSE live[ptr].n
           \* the client's data after the call: the first min(old_n, size) bytes
           S0 == IF ptr = NULL \/ size >= old_n THEN State
                 ELSE Hold(State, ptr, size, live[ptr].base, live[ptr].aligned)
           After(S1) == IF S1.status # "ok" THEN S1
                        ELSE IF ptr = NULL THEN Take(S1, S1.ret, size, S1.ret - HDR, FALSE)
                        ELSE IF size = 0 THEN Drop(S1, ptr)
                        ELSE IF S1.ret = NULL THEN S1
                        ELSE IF S1.copied THEN Retake(Drop(S1, ptr), S1.ret, size, old_n)
                        ELSE Retake(S1, ptr, size, old_n)
           Done(S1) == Commit(After(S1), Report(S1, "realloc", ptr, size, 0))
       IN Done(mem_realloc(S0, ptr, size, mmap_ok))

Next ==
    \/ \E strategy \in STRATEGIES, mmap_ok \in BOOLEAN, mutex_ok \in BOOLEAN :
          DoInit(strategy, mmap_ok, mutex_ok)
    \/ \E size \in SIZES, mmap_ok \in BOOLEAN : DoAlloc(size, mmap_ok)
    \/ \E a \in ALIGNED_ARGS, mmap_ok \in BOOLEAN : DoAllocAligned(a[1], a[2], mmap_ok)
    \/ \E ptr \in DOMAIN live : DoFree(ptr)
    \/ \E ptr \in UNKNOWN : DoFreeUnknown(ptr)
    \/ DoStats
    \/ \E ptr \in {q \in DOMAIN live : ~live[q].aligned},
          protection \in {MEM_READ, MEM_READ + MEM_WRITE}, mprotect_ok \in BOOLEAN :
          DoProtect(ptr, protection, mprotect_ok)
    \/ DoCleanup
    \/ \E strategy \in STRATEGIES, mmap_ok \in BOOLEAN, mutex_ok \in BOOLEAN :
          DoReinit(strategy, mmap_ok, mutex_ok)
    \/ \E c \in UNINIT_CALLS \cup INVALID_CALLS, os_ok \in BOOLEAN : DoRejected(c, os_ok)
    \/ \E ptr \in {q \in DOMAIN live : ~live[q].aligned},
          size \in SIZES, mmap_ok \in BOOLEAN : DoRealloc(ptr, size, mmap_ok)

Spec == Init /\ [][Next]_vars

-----------------------------------------------------------------------------
(* The program with requests of any size: a client that initialises the    *)
(* allocator and allocates.                                                *)

ANY_SIZES == {1, 8, 13, 40, SIZE_MAX - 3}
ANY_ALIGNED_ARGS == {<<5, 8>>, <<SIZE_MAX - 7, 8>>, <<SIZE_MAX - 15, 8>>, <<SIZE_MAX - 19, 8>>}

NextSizes ==
    \/ \E mmap_ok \in BOOLEAN, mutex_ok \in BOOLEAN : DoInit(0, mmap_ok, mutex_ok)
    \/ \E size \in ANY_SIZES, mmap_ok \in BOOLEAN : DoAlloc(size, mmap_ok)
    \/ \E a \in ANY_ALIGNED_ARGS, mmap_ok \in BOOLEAN : DoAllocAligned(a[1], a[2], mmap_ok)

SpecSizes == Init /\ [][NextSizes]_vars

-----------------------------------------------------------------------------
(* The program with a heap of two pages and a client that goes on after    *)
(* mem_protect: it initialises the allocator, allocates, changes the       *)
(* protection of what it holds and frees.                                  *)

PROTECTIONS == {MEM_READ, MEM_READ + MEM_WRITE}

DoInitPages(n, strategy) ==
    /\ status = "ok"
    /\ ~initialized
    /\ calls["init"] < MaxInits
    /\ LET cfg == [initial_heap_size |-> n * PageSize, page_size |-> PageSize,
                   use_guard_pages |-> FALSE, allocation_strategy |-> strategy]
           Done(S1) == Commit(S1, Report(S1, "init", NULL, 0, 0))
       IN Done(allocator_init(State, cfg, TRUE, TRUE))

(* mem_protect of a pointer the client holds *)
DoProtectOn(ptr, protection, mprotect_ok) ==
    /\ status = "ok"
    /\ initialized
    /\ LET Done(S1) == Commit(S1, Report(S1, "protect", ptr, live[ptr].n, 0))
       IN Done(mem_protect(State, ptr, live[ptr].n, protection, mprotect_ok))

NextProtect ==
    \/ \E strategy \in {0, 1} : DoInitPages(2, strategy)
    \/ \E size \in SIZES, mmap_ok \in BOOLEAN : DoAlloc(size, mmap_ok)
    \/ \E ptr \in DOMAIN live, protection \in PROTECTIONS, mprotect_ok \in BOOLEAN :
          DoProtectOn(ptr, protection, mprotect_ok)
    \/ \E ptr \in DOMAIN live : DoFree(ptr)

SpecProtect == Init /\ [][NextProtect]_vars

-----------------------------------------------------------------------------
(* The program with two client threads.  A public call is a sequence of    *)
(* steps: the tests made before pthread_mutex_lock, the lock, the part     *)
(* that runs with the mutex held (up to the unlock), and what the call     *)
(* does after the unlock.  Steps of the two threads interleave.            *)

StateOf(t) == [State EXCEPT !.self = t]

(* The pointers that a call in progress is working on *)
Busy == {pc[t].ptr : t \in THREADS} \cup {pc[t].new_ptr : t \in THREADS}

MT_SIZES == {40, 120}

MT_CALLS ==
    {Request("init", NULL, 0, 0, 0), Request("stats", NULL, 0, 0, 0),
     Request("cleanup", NULL, 0, 0, 0)}
    \cup {Request("alloc", NULL, size, 0, 0) : size \in MT_SIZES}
    \cup {Request("free", q, 0, 0, 0) : q \in (DOMAIN live) \ Busy}
    \cup {Request("realloc", q, size, 0, 0) : q \in (DOMAIN live) \ Busy, size \in MT_SIZES}
    \cup {Request("protect", q, live[q].n, 0, MEM_READ + MEM_WRITE) : q \in (DOMAIN live) \ Busy}

(* What a step has read or written of the shared state, and whether the    *)
(* thread held the mutex when it did                                       *)
Step(t, op, step, touched, ret) ==
    [op |-> op, thread |-> t, step |-> step, touched |-> touched,
     held |-> (mutex = t), was_init |-> initialized, ret |-> ret]

CommitMT(S, l, t, p, counted) ==
    /\ Store(S)
    /\ hist' = hist
    /\ last' = l
    /\ pc' = [pc EXCEPT ![t] = p]
    /\ calls' = IF counted \in COUNTED THEN [calls EXCEPT ![counted] = @ + 1] ELSE calls

(* The thread is back in the client, one more call made *)
Returned(t) == [Idle EXCEPT !.made = pc[t].made + 1]

At(t, c, at) ==
    [at |-> at, op |-> c.op, ptr |-> c.ptr, size |-> c.size,
     n |-> IF c.ptr \in DOMAIN live THEN live[c.ptr].n ELSE 0,
     new_ptr |-> NULL, made |-> pc[t].made]

(* The entry of a public function: the tests it makes before it locks the  *)
(* mutex.  All of them read allocator_state.initialized.                   *)
MT_Begin(t, c) ==
    /\ status = "ok"
    /\ pc[t].at = "idle"
    /\ pc[t].made < MaxCallsMT
    /\ c.op = "cleanup" => DOMAIN live = {}
    /\ IF c.op = "init"
       THEN IF initialized
            THEN CommitMT(State, Step(t, c.op, "check", {"initialized"}, 0), t,
                          Returned(t), "none")
            ELSE CommitMT(State, Step(t, c.op, "check", {"initialized"}, 0), t,
                          At(t, c, "setup"), "none")
       ELSE IF ~initialized
            THEN CommitMT(State, Step(t, c.op, "check", {"initialized"}, NULL), t,
                          Returned(t), "none")
            ELSE CommitMT(State, Step(t, c.op, "check", {"initialized"}, NULL), t,
                          At(t, c, "lock"), "none")

(* allocator_init after its test: it never locks the mutex *)
MT_Setup(t, mmap_ok) ==
    /\ status = "ok"
    /\ pc[t].at = "setup"
    /\ LET cfg == [initial_heap_size |-> InitialHeapSize, page_size |-> PageSize,
                   use_guard_pages |-> FALSE, allocation_strategy |-> 0]
           Done(S1) == CommitMT(S1,
                                Step(t, "init", "setup",
                                     {"initialized", "lists", "headers", "stats", "heap"},
                                     S1.ret),
                                t, Returned(t), IF S1.ret = 1 THEN "init" ELSE "none")
       IN Done(InitBody(StateOf(t), cfg, mmap_ok, TRUE))

LockAt == {"lock", "r_alloc_lock", "r_free_lock"}
LockedAt(at) ==
    CASE at = "lock" -> "locked"
      [] at = "r_alloc_lock" -> "r_alloc_locked"
      [] at = "r_free_lock" -> "r_free_locked"

(* pthread_mutex_lock returns: no other thread holds the mutex *)
MT_Lock(t) ==
    /\ status = "ok"
    /\ pc[t].at \in LockAt
    /\ mutex \notin THREADS \ {t}
    /\ LET Done(S1) == CommitMT(S1, Step(t, pc[t].op, "lock", {}, NULL), t,
                                [pc[t] EXCEPT !.at = LockedAt(pc[t].at)], "none")
       IN Done(Lock(StateOf(t)))

(* What the function does with the mutex held, up to its unlock *)
LockedPart(S, p, mmap_ok) ==
    CASE p.op = "alloc" -> AllocLocked(S, p.size, mmap_ok)
      [] p.op = "free" -> FreeLocked(S, p.ptr)
      [] p.op = "realloc" ->
             ReallocLocked(S, p.ptr, p.ptr - HDR, Hdr(S, p.ptr - HDR).next,
                           calculate_total_size(p.size))
      [] p.op = "protect" -> ProtectLocked(S, p.ptr, p.size, MEM_READ + MEM_WRITE, TRUE)
      [] p.op = "stats" -> StatsLocked(S)
      [] p.op = "cleanup" -> CleanupLocked(S)

(* The client side of a call that has returned *)
ClientAfter(S, p) ==
    IF S.status # "ok" THEN S
    ELSE CASE p.op = "alloc" -> Take(S, S.ret, p.size, S.ret - HDR, FALSE)
           [] p.op = "free" -> Drop(S, p.ptr)
           [] p.op = "realloc" ->
                  IF S.ret = NULL THEN S ELSE Retake(S, p.ptr, p.size, p.n)
           [] OTHER -> S

MT_Body(t, mmap_ok) ==
    /\ status = "ok"
    /\ pc[t].at = "locked"
    /\ LET p == pc[t]
           Goes(S1) == IF S1.status # "ok" THEN p
                       ELSE IF p.op = "realloc" /\ S1.fallback THEN [p EXCEPT !.at = "r_alloc"]
                       ELSE IF p.op = "cleanup" THEN [p EXCEPT !.at = "destroy"]
                       ELSE Returned(t)
           Done(S1) == CommitMT(IF p.op = "realloc" /\ S1.fallback THEN S1
                                ELSE ClientAfter(S1, p),
                                Step(t, p.op, "locked",
                                     {"lists", "headers", "stats", "heap"}, S1.ret),
                                t, Goes(S1),
                                IF p.op = "realloc" /\ S1.status = "ok" /\ ~S1.fallback
                                THEN "realloc" ELSE "none")
       IN Done(LockedPart(StateOf(t), p, mmap_ok))

(* allocator_cleanup after its unlock: pthread_mutex_destroy *)
MT_Destroy(t) ==
    /\ status = "ok"
    /\ pc[t].at = "destroy"
    /\ LET Done(S1) == CommitMT(S1, Step(t, "cleanup", "destroy", {}, NULL), t,
                                Returned(t), "none")
       IN Done(MutexDestroy(StateOf(t)))

(* mem_realloc after its unlock: the entry of mem_alloc(size) *)
MT_ReallocAlloc(t) ==
    /\ status = "ok"
    /\ pc[t].at = "r_alloc"
    /\ IF pc[t].size = 0 \/ ~initialized
       THEN CommitMT(State, Step(t, "realloc", "alloc check", {"initialized"}, NULL), t,
                     Returned(t), "realloc")
       ELSE CommitMT(State, Step(t, "realloc", "alloc check", {"initialized"}, NULL), t,
                     [pc[t] EXCEPT !.at = "r_alloc_lock"], "none")

(* mem_alloc(size) inside mem_realloc, the mutex held *)
MT_ReallocAllocBody(t, mmap_ok) ==
    /\ status = "ok"
    /\ pc[t].at = "r_alloc_locked"
    /\ LET Goes(S1) == IF S1.status # "ok" THEN pc[t]
                       ELSE IF S1.ret = NULL THEN Returned(t)
                       ELSE [pc[t] EXCEPT !.at = "r_copy", !.new_ptr = S1.ret]
           Done(S1) == CommitMT(S1,
                                Step(t, "realloc", "alloc locked",
                                     {"lists", "headers", "stats", "heap"}, S1.ret),
                                t, Goes(S1),
                                IF S1.status = "ok" /\ S1.ret = NULL
                                THEN "realloc" ELSE "none")
       IN Done(AllocLocked(StateOf(t), pc[t].size, mmap_ok))

(* mem_realloc between mem_alloc and mem_free: it reads block->size and    *)
(* copies the payload                                                      *)
MT_ReallocCopy(t) ==
    /\ status = "ok"
    /\ pc[t].at = "r_copy"
    /\ LET Done(S1) == CommitMT(S1,
                                Step(t, "realloc", "copy", {"headers", "heap"},
                                     pc[t].new_ptr),
                                t,
                                IF S1.status # "ok" THEN pc[t]
                                ELSE [pc[t] EXCEPT !.at = "r_free"], "none")
       IN Done(ReallocCopy(StateOf(t), pc[t].ptr, pc[t].ptr - HDR, pc[t].size,
                           pc[t].n, pc[t].new_ptr))

(* The client side of a realloc that has moved the data *)
Moved(S, p) ==
    IF S.status # "ok" THEN S
    ELSE Retake(Drop(S, p.ptr), p.new_ptr, p.size, p.n)

(* mem_realloc: the entry of mem_free(ptr) *)
MT_ReallocFree(t) ==
    /\ status = "ok"
    /\ pc[t].at = "r_free"
    /\ IF ~initialized
       THEN CommitMT(Moved(State, pc[t]),
                     Step(t, "realloc", "free check", {"initialized"}, pc[t].new_ptr),
                     t, Returned(t), "realloc")
       ELSE CommitMT(State,
                     Step(t, "realloc", "free check", {"initialized"}, pc[t].new_ptr),
                     t, [pc[t] EXCEPT !.at = "r_free_lock"], "none")

(* mem_free(ptr) inside mem_realloc, the mutex held *)
MT_ReallocFreeBody(t) ==
    /\ status = "ok"
    /\ pc[t].at = "r_free_locked"
    /\ LET Done(S1) == CommitMT(Moved(S1, pc[t]),
                                Step(t, "realloc", "free locked",
                                     {"lists", "headers", "stats"}, pc[t].new_ptr),
                                t,
                                IF S1.status # "ok" THEN pc[t] ELSE Returned(t),
                                IF S1.status = "ok" THEN "realloc" ELSE "none")
       IN Done(FreeLocked(StateOf(t), pc[t].ptr))

NextMT ==
    \/ \E t \in THREADS, c \in MT_CALLS : MT_Begin(t, c)
    \/ \E t \in THREADS, mmap_ok \in BOOLEAN : MT_Setup(t, mmap_ok)
    \/ \E t \in THREADS : MT_Lock(t)
    \/ \E t \in THREADS, mmap_ok \in BOOLEAN : MT_Body(t, mmap_ok)
    \/ \E t \in THREADS : MT_Destroy(t)
    \/ \E t \in THREADS : MT_ReallocAlloc(t)
    \/ \E t \in THREADS, mmap_ok \in BOOLEAN : MT_ReallocAllocBody(t, mmap_ok)
    \/ \E t \in THREADS : MT_ReallocCopy(t)
    \/ \E t \in THREADS : MT_ReallocFree(t)
    \/ \E t \in THREADS : MT_ReallocFreeBody(t)

SpecMT == Init /\ [][NextMT]_vars

-----------------------------------------------------------------------------
(* Claims *)

Served(op) == status = "ok" /\ last.op = op /\ last.done /\ last.ret # NULL

(* C1: the s bytes at the pointer returned by a successful alloc(s) lie    *)
(* inside one OS mapping and inside the returned block's own payload       *)
(* range [base + header, base + size).                                     *)
C1_SizeFidelity ==
    Served("alloc") =>
        /\ InMapping(State, last.ret, last.size)
        /\ last.ret + last.size <= (last.ret - HDR) + Hdr(State, last.ret - HDR).size

FreeChain == Chain(State, free_list)
UsedChain == Chain(State, used_list)
FreeNodes == SeqToSet(FreeChain.nodes)
UsedNodes == SeqToSet(UsedChain.nodes)
Quiescent == status = "ok" /\ initialized

(* C2: between public calls no block is on both lists, every block on the  *)
(* free list has is_free = TRUE and every block on the used list has       *)
(* is_free = FALSE.                                                        *)
C2_ListPartition ==
    Quiescent =>
        /\ FreeNodes \cap UsedNodes = {}
        /\ \A a \in FreeNodes : Hdr(State, a).is_free
        /\ \A a \in UsedNodes : ~Hdr(State, a).is_free

C4_MergeOnlyAdjacent ==
    (status = "ok" /\ last.op # "none") =>
        \A i \in 1..Len(last.merges) :
            last.merges[i].by = "merge" =>
                last.merges[i].into + last.merges[i].into_size = last.merges[i].absorbed

(* C5: a successful realloc(p, m) with m >= n of a pointer whose n bytes   *)
(* hold the client's data returns a pointer whose first n bytes hold it.   *)
C5_ReallocPreserves ==
    (Served("realloc") /\ last.ptr # NULL /\ last.was_intact /\ last.size >= last.n) =>
        last.preserved

(* C6: once the client has freed every pointer it got from alloc and       *)
(* realloc, used_memory and active_allocations are zero.                   *)
C6_ReleaseRoundTrip ==
    (Quiescent /\ calls["alloc_aligned"] = 0 /\ DOMAIN live = {}) =>
        stats.used_memory = 0 /\ stats.active_allocations = 0

RECURSIVE SumSizes(_, _)
SumSizes(S, nodes) ==
    IF nodes = <<>> THEN 0 ELSE Hdr(S, Head(nodes)).size + SumSizes(S, Tail(nodes))

(* C7: between public calls used_memory is the sum of the sizes of the     *)
(* blocks on the used list and free_memory that of the free list.          *)
C7_StatsMatchBlocks ==
    (Quiescent /\ FreeChain.end = "null" /\ UsedChain.end = "null") =>
        /\ stats.used_memory = SumSizes(State, UsedChain.nodes)
        /\ stats.free_memory = SumSizes(State, FreeChain.nodes)

(* C8: no public call lowers peak_usage, and between public calls          *)
(* peak_usage >= used_memory.                                              *)
C8_PeakMonotone ==
    (Quiescent /\ last.op \notin {"none", "init"}) =>
        /\ stats.peak_usage >= last.peak_before
        /\ stats.peak_usage >= stats.used_memory

Fits(pl, j) == pl.list[j].is_free /\ pl.list[j].size >= pl.size
Surplus(pl, j) == pl.list[j].size - pl.size
ChosenIdx(pl) == FirstIdx(pl.list, LAMBDA b : b.addr = pl.chosen)

(* C9: under best-fit every placement served from the free list picks a    *)
(* fitting block of the smallest surplus, the earliest such in link order. *)
(* The candidates are the free-list blocks the scan may return, those      *)
(* flagged free.                                                           *)
C9_BestFit ==
    (status = "ok" /\ last.op # "none") =>
        \A k \in 1..Len(last.place) :
            LET pl == last.place[k]
                i == ChosenIdx(pl)
            IN (pl.strategy = 1 /\ pl.chosen # NULL) =>
                  /\ i > 0
                  /\ Fits(pl, i)
                  /\ \A j \in 1..Len(pl.list) :
                        Fits(pl, j) =>
                           /\ Surplus(pl, j) >= Surplus(pl, i)
                           /\ (Surplus(pl, j) = Surplus(pl, i) => j >= i)

C9_Witness ==
    /\ status = "ok" /\ last.op = "alloc" /\ last.ret # NULL
    /\ \E k \in 1..Len(last.place) :
         LET pl == last.place[k]
         IN /\ pl.strategy = 1 /\ pl.chosen # NULL
            /\ \E j \in 1..Len(pl.list) : Fits(pl, j) /\ pl.list[j].addr # pl.chosen
            /\ ChosenIdx(pl) > 1

(* C10: under worst-fit the scan returns the fitting free-list block of    *)
(* the largest surplus, the earliest such in link order, and returns none  *)
(* only when no free-list block fits.                                      *)
C10_WorstFit ==
    (status = "ok" /\ last.op # "none") =>
        \A k \in 1..Len(last.place) :
            LET pl == last.place[k]
                i == ChosenIdx(pl)
            IN pl.strategy = 2 =>
                  IF pl.chosen = NULL
                  THEN \A j \in 1..Len(pl.list) : ~Fits(pl, j)
                  ELSE /\ i > 0
                       /\ Fits(pl, i)
                       /\ \A j \in 1..Len(pl.list) :
                             Fits(pl, j) =>
                                /\ Surplus(pl, j) <= Surplus(pl, i)
                                /\ (Surplus(pl, j) = Surplus(pl, i) => j >= i)

(* C11: a successful alloc_aligned(s, a) with s > 0 and a a power of two   *)
(* returns a pointer p with p mod a = 0.                                   *)
C11_Aligned ==
    (Served("alloc_aligned") /\ last.size > 0 /\ IsPowerOfTwo(last.alignment)) =>
        last.ret % last.alignment = 0

(* the raw pointer plus the slot was not aligned yet: the rounding moved it *)
C11_Witness ==
    /\ Served("alloc_aligned")
    /\ last.alignment = 64
    /\ (last.raw + PTR_SIZE) % last.alignment # 0
    /\ last.ret > last.raw + PTR_SIZE

(* C12: after a successful alloc_aligned(s, a) the back-pointer slot       *)
(* [p - 8, p) and the range [p, p + s) lie inside the payload of the       *)
(* underlying block and inside one mapping, and they overlap neither the   *)
(* header nor the payload of any other block on the free or used list.     *)
C12_AlignedInBlock ==
    Served("alloc_aligned") =>
        LET p == last.ret
            base == last.raw - HDR
        IN /\ last.raw <= p - PTR_SIZE
           /\ p + last.size <= base + Hdr(State, base).size
           /\ InMapping(State, p - PTR_SIZE, PTR_SIZE + last.size)
           /\ \A b \in (FreeNodes \cup UsedNodes) \ {base} :
                  ~Overlap(p - PTR_SIZE, p + last.size, b, b + Hdr(State, b).size)

(* C13: after allocator_init, k >= 1 successful allocs served from the     *)
(* first mapping and then the free of all k pointers in reverse order of   *)
(* allocation, free_memory has its value after init and the free list is   *)
(* one block of size total_memory.                                         *)
C13_RoundTrip ==
    (/\ Quiescent /\ hist.pure
     /\ Len(hist.allocs) >= 1 /\ Len(hist.frees) = Len(hist.allocs)
     /\ \A i \in 1..Len(hist.frees) :
            hist.frees[i] = hist.allocs[Len(hist.allocs) + 1 - i].ptr) =>
        /\ stats.free_memory = round_up_to_page_size(State, config.initial_heap_size)
        /\ FreeChain.end = "null"
        /\ Len(FreeChain.nodes) = 1
        /\ Hdr(State, FreeChain.nodes[1]).size = stats.total_memory

(* three allocations, the last of which took the rest of the heap whole,   *)
(* freed last to first                                                     *)
C13_Witness ==
    /\ Quiescent /\ hist.pure
    /\ Len(hist.allocs) = 3 /\ Len(hist.frees) = 3
    /\ \A i \in 1..3 : hist.frees[i] = hist.allocs[4 - i].ptr
    /\ stats.total_memory = heap_size
    /\ Cardinality(extents) = 1

RECURSIVE SumTotals(_)
SumTotals(allocs) ==
    IF allocs = <<>> THEN 0
    ELSE calculate_total_size(Head(allocs).size) + SumTotals(Tail(allocs))

(* the run has left a free tail behind its last block *)
TailLeft == heap_size - SumTotals(hist.allocs) >= HDR + MIN_PAYLOAD

(* the frees so far are those of the 1st, 3rd, 5th ... allocation, in order *)
EveryOtherFreed ==
    /\ Len(hist.frees) = (Len(hist.allocs) + 1) \div 2
    /\ \A i \in 1..Len(hist.frees) : hist.frees[i] = hist.allocs[2 * i - 1].ptr

(* C14: on the first mapping, after a run of allocations of varying sizes  *)
(* and the free of every other one, which leaves at least two free regions *)
(* with a used block between them, the fragmentation ratio 1 - largest /   *)
(* free is strictly between 0 and 1: 0 < largest < free_memory.            *)
C14_Fragmented ==
    (/\ Quiescent /\ hist.pure
     /\ Len(hist.allocs) >= 2
     /\ \E i, j \in 1..Len(hist.allocs) : hist.allocs[i].size # hist.allocs[j].size
     /\ EveryOtherFreed
     /\ Len(hist.frees) + (IF TailLeft THEN 1 ELSE 0) >= 2) =>
        /\ stats.fragmentation_ratio.free = stats.free_memory
        /\ 0 < stats.fragmentation_ratio.largest
        /\ stats.fragmentation_ratio.largest < stats.fragmentation_ratio.free

(* C15: mem_free(p) with p none, or with p - header not the base of a      *)
(* block on the used list (a pointer freed before, a pointer returned by   *)
(* alloc_aligned, any other address), returns and leaves the lists, the    *)
(* headers and the statistics as they were.                                *)
C15_UnknownIgnored ==
    (last.op = "free" /\ ~last.on_used) => (last.done /\ last.unchanged)

(* C16: a call of alloc, alloc_aligned, free, realloc, protect, cleanup    *)
(* or stats made while the allocator is not initialised (before init,      *)
(* after cleanup), and a call with an invalid argument (alloc of size 0,   *)
(* alloc_aligned with alignment 0 or not a power of two, protect of none)  *)
(* returns none/false, stats an all-zero snapshot, and leaves the          *)
(* allocator state unchanged.                                              *)
C16_RejectedNoEffect ==
    (/\ last.op \in {"alloc", "alloc_aligned", "free", "realloc", "protect",
                     "cleanup", "stats"}
     /\ \/ ~last.was_init
        \/ (last.op = "alloc" /\ last.size = 0)
        \/ (last.op = "alloc_aligned" /\ last.alignment \notin {1, 2, 4, 8, 16, 32, 64})
        \/ (last.op = "protect" /\ last.ptr = NULL)) =>
        /\ last.done
        /\ last.ret = NULL
        /\ last.unchanged
        /\ last.snapshot = ZeroStats

(* a realloc of a stale pointer after cleanup, with a leaked mapping left  *)
C16_Witness ==
    /\ status = "end" /\ last.op = "realloc" /\ ~last.was_init
    /\ last.ptr # NULL /\ last.size > 0
    /\ calls["init"] = 1 /\ mutex = "destroyed" /\ extents # {}

(* C17: when mmap fails during the heap extension inside mem_alloc, called *)
(* directly, by mem_alloc_aligned or by the allocate-copy-free path of     *)
(* mem_realloc, the call returns none and the lists, the headers,          *)
(* heap_size and the statistics are as before the call; for realloc the    *)
(* old block is still on the used list.                                    *)
C17_ExhaustionPreserves ==
    (last.op \in {"alloc", "alloc_aligned", "realloc"} /\ last.mmap_failed) =>
        /\ last.done
        /\ last.ret = NULL
        /\ last.unchanged
        /\ (last.op = "realloc" /\ last.on_used) => InSeq(last.ptr - HDR, UsedChain.nodes)

(* a growing realloc that found no room, with blocks on both lists *)
C17_Witness ==
    /\ status = "ok" /\ last.op = "realloc" /\ last.mmap_failed
    /\ last.ptr \in DOMAIN live /\ last.on_used
    /\ free_list # NULL /\ stats.used_memory > 0

(* C20: every public call returns: no walk over a list goes on for ever,   *)
(* and between calls both lists are acyclic.                               *)
C20_RunToCompletion ==
    /\ status # "hang"
    /\ Quiescent => (FreeChain.end # "cycle" /\ UsedChain.end # "cycle")

(* Nobody is inside a public call *)
AllIdle == \A t \in THREADS : pc[t].at = "idle"
HeldAt == {"locked", "r_alloc_locked", "r_free_locked"}

(* C18: a thread holds the mutex only between the lock and the unlock of   *)
(* the public call it is in; no thread locks the mutex while it holds it   *)
(* (mem_realloc has released it when it calls mem_alloc and mem_free); and *)
(* when no public call is in progress the mutex is not held.               *)
C18_GuardDiscipline ==
    /\ status # "deadlock"
    /\ \A t \in THREADS : mutex = t => pc[t].at \in HeldAt
    /\ \A t \in THREADS : pc[t].at \in LockAt => mutex # t
    /\ AllIdle => mutex \notin THREADS

(* a realloc has gone through its unlocked window, mem_alloc and mem_free  *)
(* included, while the other thread was making calls too                   *)
C18_Witness ==
    /\ status = "ok" /\ AllIdle /\ mutex = "free"
    /\ last.op = "realloc" /\ last.step = "free locked"
    /\ \A t \in THREADS : pc[t].made >= 1

(* C19: every step of a public call that reads or writes the lists, the    *)
(* block headers, the heap extents, the initialized flag or the statistics *)
(* is made by a thread that holds the mutex; mem_realloc does not touch a  *)
(* header between its unlock and its nested calls; and allocator_init does *)
(* not set the state up when it is set up already.                         *)
C19_Guarded ==
    last.op # "none" =>
        /\ last.touched # {} => last.held
        /\ ~(last.step = "copy" /\ "headers" \in last.touched)
        /\ ~(last.step = "setup" /\ last.was_init /\ last.ret = 1)

(* The pages of [lo, lo + len) *)
PagesIn(lo, len) == {lo + k * PageSize : k \in 0..((len \div PageSize) - 1)}

(* C21: after an allocator_cleanup that found the allocator initialised,   *)
(* none of the mappings made by allocator_init and extend_heap is left,    *)
(* and every page it has passed to munmap was in one of those mappings.    *)
C21_TeardownReturnsAll ==
    (last.op = "cleanup" /\ last.was_init /\ last.done) =>
        /\ extents = {}
        /\ \A pg \in PagesIn(last.heap.start, last.heap.size) :
              \E e \in last.heap.maps : e.base <= pg /\ pg + PageSize <= e.base + e.size

(* The last call was an allocator_init made after an allocator_cleanup *)
Reinit == last.op = "init" /\ calls["init"] >= (IF last.ret = 1 THEN 2 ELSE 1)

(* C22: after a run of calls that ends with allocator_cleanup, another     *)
(* allocator_cleanup returns and changes nothing, and an allocator_init    *)
(* whose mmap and pthread_mutex_init succeed returns true and leaves the   *)
(* state of a first init:                                                  *)
(* total_memory = free_memory = the initial heap size rounded up to pages, *)
(* the other counters 0, no used block, one free block of total_memory.    *)
C22_LifecycleReset ==
    /\ (last.op = "cleanup" /\ ~last.was_init /\ calls["init"] >= 1) =>
           (last.done /\ last.unchanged)
    /\ (Reinit /\ ~last.mmap_failed /\ ~last.mutex_failed) =>
           /\ last.done /\ last.ret = 1
           /\ initialized /\ mutex = "free"
           /\ stats.total_memory = ((InitialHeapSize + PageSize - 1) \div PageSize) * PageSize
           /\ stats.free_memory = stats.total_memory
           /\ stats.used_memory = 0 /\ stats.active_allocations = 0
           /\ stats.total_allocations = 0 /\ stats.peak_usage = 0
           /\ stats.fragmentation_ratio = [largest |-> 0, free |-> 0]
           /\ used_list = NULL
           /\ heap_size = stats.total_memory
           /\ free_list = heap_start /\ Mapped(State, free_list)
           /\ Hdr(State, free_list) = [size |-> stats.total_memory, is_free |-> TRUE,
                                       protection |-> MEM_READ + MEM_WRITE,
                                       next |-> NULL, prev |-> NULL]

(* an allocator_init that succeeds after a run that has extended the heap  *)
(* and has ended with allocator_cleanup                                    *)
C22_Witness ==
    /\ Reinit /\ last.ret = 1 /\ status = "end"
    /\ Cardinality(extents) = 2

BlockEnd(a) == a + Hdr(State, a).size

(* C23: between public calls the ranges [base, base + size) of two         *)
(* different blocks on the free and used lists are disjoint, the payloads  *)
(* of two pointers the client holds are disjoint, and no block header      *)
(* lies inside the payload of a pointer the client holds.                  *)
C23_NoOverlap ==
    Quiescent =>
        /\ \A a, b \in FreeNodes \cup UsedNodes :
              a # b => ~Overlap(a, BlockEnd(a), b, BlockEnd(b))
        /\ \A p, q \in DOMAIN live :
              p # q => ~Overlap(p, p + live[p].n, q, q + live[q].n)
        /\ \A p \in DOMAIN live, a \in FreeNodes \cup UsedNodes :
              ~Overlap(p, p + live[p].n, a, a + HDR)

(* The blocks mem_realloc has taken over in place during the last call *)
Absorbed == {last.merges[i] : i \in {j \in 1..Len(last.merges) : last.merges[j].by = "realloc"}}

(* C24: whenever mem_realloc grows a block in place, the block it absorbs  *)
(* starts where the grown block ended: base(N) = base(block) + old size.   *)
C24_AbsorbsAdjacent ==
    (status = "ok" /\ last.op = "realloc") =>
        \A m \in Absorbed : m.into + m.into_size = m.absorbed

(* C25: when mem_realloc grows a block in place from size o to its final   *)
(* size f, used_memory goes up by f - o and free_memory goes down by       *)
(* f - o, whether the remainder is split off or kept.                      *)
C25_ExactDelta ==
    (status = "ok" /\ last.op = "realloc") =>
        \A m \in Absorbed :
            /\ stats.used_memory = Add(last.before.used, Hdr(State, m.into).size - m.into_size)
            /\ stats.free_memory = Sub(last.before.free, Hdr(State, m.into).size - m.into_size)

(* C26: between public calls every block on the free list and on the used  *)
(* list has size >= header size + 16, whatever payload sizes >= 1 have     *)
(* been requested.                                                         *)
C26_MinBlockSize ==
    Quiescent =>
        \A a \in FreeNodes \cup UsedNodes : Hdr(State, a).size >= HDR + MIN_PAYLOAD

(* C27: the pointer returned by a successful alloc is the address of its   *)
(* block plus the header size, and a multiple of 8.                        *)
C27_PayloadAligned ==
    Served("alloc") =>
        /\ last.ret = last.raw + HDR
        /\ last.raw \in UsedNodes
        /\ last.ret % 8 = 0

(* C29: a successful alloc(s) returns a block of at least s + header size  *)
(* bytes and a successful alloc_aligned(s, a) one of at least              *)
(* s + a + pointer size + header size bytes, the sums taken in the         *)
(* integers, also when they exceed SIZE_MAX.                               *)
C29_NoSizeOverflow ==
    /\ Served("alloc") =>
          Hdr(State, last.raw).size >= last.size + HDR
    /\ Served("alloc_aligned") =>
          Hdr(State, last.raw - HDR).size >= last.size + last.alignment + PTR_SIZE + HDR

(* C28: between public calls used_memory <= total_memory and               *)
(* free_memory <= total_memory: neither counter has been taken below zero  *)
(* (where it wraps) nor above what is mapped.                              *)
C28_CountersInRange ==
    Quiescent =>
        /\ stats.used_memory <= stats.total_memory
        /\ stats.free_memory <= stats.total_memory

(* C30: no thread locks or unlocks the mutex allocator_cleanup has         *)
(* destroyed; no thread runs the locked part of a call after               *)
(* allocator_cleanup has reset the state; and whenever initialized is      *)
(* false and no allocator_init is running, both lists are empty,           *)
(* heap_size is 0 and the statistics are all zero.                         *)
C30_TeardownRaceFree ==
    /\ ~(status = "badlock" /\ mutex = "destroyed")
    /\ (last.op # "none" /\ last.step \in {"locked", "alloc locked", "free locked"}) =>
           last.was_init
    /\ (status = "ok" /\ ~initialized /\ \A t \in THREADS : pc[t].at # "setup") =>
           /\ free_list = NULL /\ used_list = NULL
           /\ heap_size = 0 /\ stats = ZeroStats

(* C31: while a page has lost PROT_WRITE through a mem_protect that        *)
(* mprotect has accepted, no call of the allocator (that mem_protect,      *)
(* mem_free, mem_alloc with its split, a merge, a relink of a list) stores *)
(* a header field in such a page: no call ends in the fault of such a      *)
(* store.                                                                  *)
C31_ProtectionKeepsHeadersWritable ==
    last.op \in {"protect", "free", "alloc"} => ~last.prot_fault
================================================================================
